---- MODULE Spec2Model ----
(***************************************************************************)
(* Model of garc/client.py: the Garc client's paginated retrieval engines  *)
(* (search, hashtag, public_search, userposts, usercomments, followers,    *)
(* following) and user, the recursive retry wrappers get / anonymous_get,  *)
(* and the lazy login.  One call runs at a time; the upstream server is    *)
(* the environment and answers every HTTP request nondeterministically.    *)
(***************************************************************************)
EXTENDS Integers, Sequences, FiniteSets, TLC

VARIABLES
    inputs,         \* what the constructor reads: its arguments, the
                    \* environment and the profile section of the config file
    user_account,   \* self.user_account: "" (unset) or an account name
    user_password,  \* self.user_password: "" (unset) or a password
    cookie,         \* self.cookie: "None", "empty" (a jar holding no
                    \* cookie) or "jar"
    engine,         \* the generator being consumed, "none" when idle
    gabs,           \* the limit argument (-1 = unbounded)
    gabs_after,     \* the date cutoff argument
    pc,             \* new | exit | idle | start | get | got | yield | done |
                    \* error
    phase,          \* "lookup" (account_by_username fetch) or "page"
    page,           \* search: loop variable of  for page in range(pages_count)
    pages_count,    \* search: iteration bound
    max_id,         \* max_id local of the cursor engines (NoId = "")
    account_id,     \* userposts / usercomments: resolved account id
    num_gabs,       \* num_gabs / num_followers local
    posts,          \* the page being iterated or that ended the call; <<>>
                    \* while get runs (the old page is never read again)
    idx,            \* position of the record the generator is suspended on
    last_published_date, \* userposts local
    url,            \* the url local: the request the engine issues next
    resp,           \* value get / anonymous_get returned to the engine
    frames,         \* call stack of the recursive get: pending retry frames
    hist,           \* requests issued for the current logical fetch
    slept,          \* time.sleep durations of the current logical fetch
    wire,           \* what the transport delivered on the last request
    err,            \* exception that ended the call, "" if none
    stop,           \* which exit of the loop ended the call, "" if none
    npages,         \* non-retry page responses handed to the engine
    num_yielded,    \* records handed to the consumer in this call
    last_id         \* id of the last record of the latest non-empty page

vars == <<inputs, user_account, user_password, cookie, engine, gabs, gabs_after, pc,
          phase, page, pages_count, max_id, account_id, num_gabs, posts, idx,
          last_published_date, url, resp, frames, hist, slept, wire, err,
          stop, npages, num_yielded, last_id>>

client == <<inputs, user_account, user_password>>
args == <<engine, gabs, gabs_after>>

-----------------------------------------------------------------------------
(* Bounds of the model *)

MaxPageLen == 4     \* records in one upstream page
MaxPages == 2       \* non-empty pages the upstream serves in one call
MaxRetries == 3     \* retry-status answers within one logical fetch
MaxLimit == 2       \* small limits 0..MaxLimit
DataPages == 1      \* SpecData: non-empty pages the upstream serves
DataRetries == 1    \* SpecData: retry-status answers within one fetch

(* Program constants *)

PAGE_SIZE == 25             \* search: gabs per page
ALL_PAGES == 100000000      \* search: pages_count for gabs = -1
SLEEP_RATE_LIMIT == 100     \* time.sleep(100) on 429
SLEEP_404 == 10             \* get: time.sleep(10) on 404
SLEEP_404_ANON == 15        \* anonymous_get: time.sleep(15) on 404
SLEEP_500 == 15             \* time.sleep(15) on 500
SLEEP_CONN == 15            \* time.sleep(15) on ConnectionError

-----------------------------------------------------------------------------
(* Data *)

Engines == {"search", "hashtag", "public_search", "userposts",
            "usercomments", "followers", "following", "user"}

\* engines whose fetches go through get (login + cookie)
Authenticated == Engines \ {"public_search"}

\* engines that first resolve the account id
WithLookup == {"userposts", "usercomments"}

\* engines whose cursor is a max_id
MaxIdEngines == {"hashtag", "public_search", "userposts", "usercomments"}

NoId == <<0, 0>>            \* the empty string max_id = ""
Absent == <<-1, -1>>        \* a query parameter the url does not carry
Garbled == <<-2, -2>>       \* a parameter value with text glued after it
AcctId == <<0, 7>>          \* id the account lookup answers

Dates == {1, 2}             \* created_at values, ordered like ISO strings
Cutoffs == {2}              \* gabs_after values
\* content of a record, as the text pieces of its HTML: tags, character
\* references and words
Markup == <<"<b>", "Q", "&amp;">>
Plain == <<"x">>
Contents == {Markup, Plain}
Query == "q"                \* the q argument of public_search
Unset == <<"(unset)">>      \* a key the upstream record does not carry

Limits(e) ==
    IF e = "search" THEN (-1 .. MaxLimit) \cup {PAGE_SIZE, PAGE_SIZE + 1}
    ELSE IF e \in {"followers", "following", "user"} THEN {-1}
    ELSE -1 .. MaxLimit

\* engines whose behaviour depends on the records' dates and contents
DataEngines == {"public_search", "userposts"}

\* created_at and content of the records the upstream serves: every
\* combination under SpecData (rich), one fixed record shape under Spec
Fields(e, rich) ==
    IF rich
    THEN Dates \X (IF e = "public_search" THEN Contents ELSE {Plain})
    ELSE {<<2, Markup>>}

\* the record lists an upstream page of engine e can hold as page number n,
\* when the upstream serves at most mp non-empty pages
Lists(e, n, rich, mp) ==
    UNION { { [i \in 1..len |-> [id |-> <<n, i>>,
                                 created_at |-> f[i][1],
                                 content |-> f[i][2],
                                 body |-> Unset]] :
              f \in [1..len -> Fields(e, rich)] } :
            len \in 0 .. (IF n > mp THEN 0 ELSE MaxPageLen) }

NoBody == [nokeys |-> TRUE, items |-> <<>>, id |-> NoId]
None == [st |-> 0, body |-> NoBody]             \* Python None
ConnErr == [st |-> -1, body |-> NoBody]         \* ConnectionError raised

\* decoded bodies of a 200 answer
Bodies(e, ph, n, rich, mp) ==
    IF ph = "lookup" THEN {[nokeys |-> FALSE, items |-> <<>>, id |-> AcctId]}
    ELSE {[nokeys |-> FALSE, items |-> l, id |-> NoId] :
            l \in Lists(e, n, rich, mp)}
         \cup (IF e = "search" THEN {NoBody} ELSE {})

RetryOutcomes ==
    {[st |-> s, body |-> NoBody] : s \in {404, 429, 500}} \cup {ConnErr}

\* answers to the next request: mr bounds the retry-status answers
Outcomes(e, ph, n, rich, mp, mr) ==
    {[st |-> 200, body |-> b] : b \in Bodies(e, ph, n, rich, mp)}
    \cup (IF Len(hist) < mr THEN RetryOutcomes ELSE {})

-----------------------------------------------------------------------------
(* Construction: __init__ (lines 22-49), check_keys (lines 448-463) and    *)
(* load_config (lines 465-490).  "" stands for None and the empty string.  *)

NoOption == "(no option)"   \* a key the profile section does not hold

\* the profile section of the config file: not found (no file, or no such
\* section), or found with each of the two options present or not
Profiles ==
    {[found |-> FALSE, user_account |-> NoOption, user_password |-> NoOption]}
    \cup {[found |-> TRUE, user_account |-> a, user_password |-> p] :
             a \in {NoOption, "cfg_acct"}, p \in {NoOption, "cfg_pw"}}

AllInputs ==
    [arg_account : {"", "acct"}, arg_password : {"", "pw"},
     env_account : {"", "env_acct"}, env_password : {"", "env_pw"},
     profile : Profiles]

\* construction from the arguments alone: no environment, no profile
ArgInputs ==
    {i \in AllInputs : /\ i.env_account = "" /\ i.env_password = ""
                       /\ ~i.profile.found}

\* if not self.user_account: self.user_account = env("GAB_ACCOUNT")
FromEnv(v, e) == IF v = "" THEN e ELSE v

\* load_config: both attributes are set from the profile, one after the
\* other; a missing option ends the process (sys.exit)
load_config(a, p, prof) ==
    IF ~prof.found
    THEN [user_account |-> a, user_password |-> p, exit |-> FALSE]
    ELSE IF prof.user_account = NoOption
    THEN [user_account |-> a, user_password |-> p, exit |-> TRUE]
    ELSE IF prof.user_password = NoOption
    THEN [user_account |-> prof.user_account, user_password |-> p,
          exit |-> TRUE]
    ELSE [user_account |-> prof.user_account,
          user_password |-> prof.user_password, exit |-> FALSE]

\* check_keys; self.config is never false (line 46 gives it a default path)
check_keys(i) ==
    LET a == FromEnv(i.arg_account, i.env_account)
        p == FromEnv(i.arg_password, i.env_password)
    IN IF ~(a # "" /\ p # "") THEN load_config(a, p, i.profile)
       ELSE [user_account |-> a, user_password |-> p, exit |-> FALSE]

-----------------------------------------------------------------------------
(* URLs: an endpoint, the account id in the path, and the query string as  *)
(* the pieces the code concatenates; Amp separates parameters.            *)

Piece(k, v) == [k |-> k, v |-> v]
Amp == Piece("&", "&")

\* value of parameter k as the server parses the query string
Param(u, k) ==
    LET qs == u.query
        starts == {i \in 1..Len(qs) :
                     /\ qs[i].k = k
                     /\ (i = 1 \/ qs[i-1].k = Amp.k)}
    IN IF starts = {} THEN Absent
       ELSE LET i == CHOOSE j \in starts : TRUE
            IN IF i = Len(qs) \/ qs[i+1].k = Amp.k THEN qs[i].v ELSE Garbled

\* the cursor position a request carries
CursorOf(u) ==
    CASE u.ep = "search" -> Param(u, "page")
      [] u.ep \in {"followers", "following"} -> Param(u, "before")
      [] u.ep = "account_by_username" -> Absent
      [] OTHER -> Param(u, "max_id")

NoUrl == [ep |-> "", acct |-> NoId, query |-> <<>>]

SearchUrl(p) ==
    [ep |-> "search", acct |-> NoId,
     query |-> <<Piece("type", "status"), Amp, Piece("onlyVerified", "False"),
                 Amp, Piece("q", Query), Amp, Piece("resolve", "true"),
                 Amp, Piece("page", p)>>]

HashtagUrl(m) ==
    [ep |-> "tag", acct |-> NoId, query |-> <<Piece("max_id", m)>>]

PublicUrl(m) ==
    [ep |-> "public", acct |-> NoId,
     query |-> <<Piece("limit", 40), Amp, Piece("max_id", m)>>]

AccountUrl ==
    [ep |-> "account_by_username", acct |-> NoId, query |-> <<>>]

UserpostsUrl(a, m) ==
    [ep |-> "statuses", acct |-> a,
     query |-> <<Piece("exclude_replies", "true"), Amp, Piece("max_id", m)>>]

UsercommentsBase(a) ==
    [ep |-> "statuses", acct |-> a,
     query |-> <<Piece("only_comments", "true"), Amp,
                 Piece("exclude_replies", "false")>>]

\* actual_endpoint = base_url + 'max_id=' + max_id
UsercommentsNext(a, m) ==
    [UsercommentsBase(a) EXCEPT !.query = Append(@, Piece("max_id", m))]

FollowUrl(e, n) ==
    [ep |-> e, acct |-> NoId, query |-> <<Piece("before", n)>>]

-----------------------------------------------------------------------------
(* get / anonymous_get: the retry wrappers (lines 359-412) *)

\* time.sleep argument of the 404 branch
Sleep404(e) == IF e \in Authenticated THEN SLEEP_404 ELSE SLEEP_404_ANON

\* A call of get that received r (a response, or None from a deeper call)
\* returns through the pending frames fr, innermost last.  A "conn" frame
\* is the except branch: it drops the result of the nested call and falls
\* off the end of the function (None).  A "404" frame assigns the nested
\* result to r and then evaluates r.status_code == 500.  A "500" frame
\* assigns the nested result to r and returns it.
RECURSIVE Unwind(_, _)
Unwind(fr, r) ==
    IF fr = <<>> THEN [kind |-> "return", val |-> r, fr |-> <<>>]
    ELSE LET top == fr[Len(fr)]
             rest == SubSeq(fr, 1, Len(fr) - 1)
         IN CASE top = "conn" -> Unwind(rest, None)
              [] top = "500" -> Unwind(rest, r)
              [] top = "404" ->
                   IF r = None
                   THEN [kind |-> "raise", val |-> None, fr |-> <<>>]
                   ELSE IF r.st = 500
                   THEN [kind |-> "retry", val |-> None,
                         fr |-> Append(rest, "500")]
                   ELSE Unwind(rest, r)

RetryBranch_No500(o) ==
    IF o = ConnErr THEN "conn" ELSE IF o.st = 404 THEN "404" ELSE ""

\* which branch of get / anonymous_get the answer o takes: the except
\* branch ("conn"), the 404 branch, the 500 branch, or none ("")
RetryBranch(o) ==
    IF o = ConnErr THEN "conn"
    ELSE IF o.st = 404 THEN "404"
    ELSE IF o.st = 500 THEN "500"
    ELSE ""

CanLogin_Either == user_account # "" \/ user_password # ""

\* login (lines 298-326): raises when the account info is missing
CanLogin == user_account # "" /\ user_password # ""

\* self.cookie = d.cookies: the cookies of the final response of the POST,
\* a jar that may hold none
LoginResults == {"jar", "empty"}

\* not self.cookie: None and a jar holding no cookie are both false
Falsy(c) == c \in {"None", "empty"}

\* line 363
NeedsLogin == engine \in Authenticated /\ Falsy(cookie)

\* get -> login raises RuntimeError("MissingAccountInfo") before any request
GetLoginFail ==
    /\ pc = "get"
    /\ NeedsLogin /\ ~CanLogin
    /\ pc' = "error"
    /\ err' = "MissingAccountInfo"
    /\ frames' = <<>>
    /\ UNCHANGED <<client, cookie, args, phase, page, pages_count, max_id,
                   account_id, num_gabs, posts, idx, last_published_date, url,
                   resp, hist, slept, wire, stop, npages, num_yielded,
                   last_id>>

\* one pass through get / anonymous_get: the login when the cookie is
\* false, leaving cookie c, then one requests.get answered with o
GetRequest(o, c) ==
    /\ pc = "get"
    /\ NeedsLogin => CanLogin
    /\ cookie' = IF NeedsLogin THEN c ELSE cookie
    /\ wire' = o
    /\ hist' = Append(hist, [cur |-> CursorOf(url), st |-> o.st])
    /\ IF RetryBranch(o) = "conn"
       THEN /\ slept' = Append(slept, SLEEP_CONN)
            /\ frames' = Append(frames, "conn")
            /\ UNCHANGED <<pc, resp, err>>
       ELSE IF RetryBranch(o) = "404"
       THEN /\ slept' = Append(slept, Sleep404(engine))
            /\ frames' = Append(frames, "404")
            /\ UNCHANGED <<pc, resp, err>>
       ELSE IF RetryBranch(o) = "500"
       THEN /\ slept' = Append(slept, SLEEP_500)
            /\ frames' = Append(frames, "500")
            /\ UNCHANGED <<pc, resp, err>>
       ELSE LET u == Unwind(frames, o)
            IN /\ frames' = u.fr
               /\ resp' = u.val
               /\ pc' = CASE u.kind = "return" -> "got"
                           [] u.kind = "raise" -> "error"
                           [] OTHER -> "get"
               /\ err' = IF u.kind = "raise" THEN "AttributeError" ELSE err
               /\ slept' = IF u.kind = "retry"
                           THEN Append(slept, SLEEP_500) ELSE slept
    /\ UNCHANGED <<client, args, phase, page, pages_count, max_id, account_id,
                   num_gabs, posts, idx, last_published_date, url, stop,
                   npages, num_yielded, last_id>>

-----------------------------------------------------------------------------
(* The generator frame: the engine's locals as one record, so that each    *)
(* stretch of engine code is a function from frame to frame.               *)

Frame ==
    [pc |-> pc, phase |-> phase, page |-> page, pages_count |-> pages_count,
     max_id |-> max_id, account_id |-> account_id, num_gabs |-> num_gabs,
     posts |-> posts, idx |-> idx,
     last_published_date |-> last_published_date, url |-> url, resp |-> resp,
     hist |-> hist, slept |-> slept, err |-> err, stop |-> stop,
     npages |-> npages, num_yielded |-> num_yielded, last_id |-> last_id]

NewFrame ==
    [pc |-> "start", phase |-> "page", page |-> 0, pages_count |-> 0,
     max_id |-> NoId, account_id |-> NoId, num_gabs |-> 0,
     posts |-> <<>>, idx |-> 0, last_published_date |-> 0, url |-> NoUrl,
     resp |-> None, hist |-> <<>>, slept |-> <<>>, err |-> "", stop |-> "",
     npages |-> 0, num_yielded |-> 0, last_id |-> NoId]

Become(s) ==
    /\ pc' = s.pc /\ phase' = s.phase /\ page' = s.page
    /\ pages_count' = s.pages_count /\ max_id' = s.max_id
    /\ account_id' = s.account_id /\ num_gabs' = s.num_gabs
    /\ posts' = s.posts /\ idx' = s.idx
    /\ last_published_date' = s.last_published_date /\ url' = s.url
    /\ resp' = s.resp /\ hist' = s.hist /\ slept' = s.slept /\ err' = s.err
    /\ stop' = s.stop /\ npages' = s.npages
    /\ num_yielded' = s.num_yielded /\ last_id' = s.last_id

\* html.unescape: character references become the characters they name
Unescape(t) == [i \in 1..Len(t) |-> IF t[i] = "&amp;" THEN "&" ELSE t[i]]

\* BeautifulSoup(...).get_text(): the text without the tags
IsTag(c) == c \in {"<b>", "</b>"}
get_text(t) == SelectSeq(t, LAMBDA c : ~IsTag(c))

\* format_post (lines 426-434): the record itself gains the body key
format_post(post) ==
    [post EXCEPT !.body = get_text(Unescape(post.content))]

\* yield self.format_post(posts[i])
YieldFormatted(s, i) ==
    [s EXCEPT !.pc = "yield", !.idx = i, !.num_yielded = @ + 1,
              !.posts[i] = format_post(@)]

\* yield posts[i]: the generator suspends, the consumer holds the record
Yield(s, i) == [s EXCEPT !.pc = "yield", !.idx = i, !.num_yielded = @ + 1]
\* break / return / falling off the loop: StopIteration
Finish(s, why) == [s EXCEPT !.pc = "done", !.stop = why]
\* an exception leaves the generator
Raise(s, e) == [s EXCEPT !.pc = "error", !.err = e]
\* resp = self.get(url): control enters get with a fresh call stack; the
\* page just iterated is dead from here on (posts is reassigned before it
\* is read again)
CallGet(s, u) ==
    [s EXCEPT !.pc = "get", !.url = u, !.resp = None, !.posts = <<>>]
\* time.sleep(d) in the engine
Sleep(s, d) == [s EXCEPT !.slept = Append(@, d)]
\* posts = resp.json(): the logical fetch is over
TakePage(s, items) ==
    [s EXCEPT !.posts = items, !.npages = @ + 1, !.resp = None,
              !.hist = <<>>, !.slept = <<>>,
              !.last_id = IF items = <<>> THEN @ ELSE items[Len(items)].id]

-----------------------------------------------------------------------------
(* search (lines 51-122) *)

PagesCount_OneMore(g) ==
    IF g = -1 THEN ALL_PAGES ELSE (g \div PAGE_SIZE) + 1

\* lines 82-87
PagesCount(g) ==
    IF g = -1 THEN ALL_PAGES
    ELSE (g \div PAGE_SIZE) + (IF g % PAGE_SIZE > 0 THEN 1 ELSE 0)

SearchLimitHit_Late(n, g) == n > g

\* line 121
SearchLimitHit(n, g) == n = g

\* for page in range(pages_count): the next iteration, or the loop's end
SearchNextPage(s) ==
    IF s.page + 1 < s.pages_count
    THEN CallGet([s EXCEPT !.page = @ + 1], SearchUrl(s.page + 1))
    ELSE Finish(s, "pages")

SearchStart(s, g) ==
    LET t == [s EXCEPT !.pages_count = PagesCount(g), !.num_gabs = 0]
    IN IF t.pages_count > 0 THEN CallGet(t, SearchUrl(0))
       ELSE Finish(t, "pages")

\* lines 98-120: from the return of get to the first yield
SearchAdvance(s, g) ==
    IF s.resp = None THEN Raise(s, "AttributeError")
    ELSE IF s.resp.st = 500 THEN Finish(s, "500")
    ELSE IF s.resp.st = 429 THEN SearchNextPage(Sleep(s, SLEEP_RATE_LIMIT))
    ELSE LET b == s.resp.body
             t == TakePage(s, b.items)
         IN IF b.nokeys THEN Finish(t, "empty")
            ELSE IF b.items = <<>> THEN Finish(t, "empty")
            ELSE Yield([t EXCEPT !.num_gabs = @ + 1], 1)

\* lines 121-122, 118-120: from a yield to the next suspension
SearchResume(s, g) ==
    IF SearchLimitHit(s.num_gabs, g) THEN Finish(s, "limit")
    ELSE IF s.idx < Len(s.posts)
    THEN Yield([s EXCEPT !.num_gabs = @ + 1], s.idx + 1)
    ELSE SearchNextPage(s)

-----------------------------------------------------------------------------
(* hashtag (lines 124-157) *)

HashtagLimitHit_AtLimit(n, g) == n >= g /\ g # -1

\* line 156
HashtagLimitHit(n, g) == n > g /\ g # -1

HashtagStart(s) == CallGet([s EXCEPT !.num_gabs = 0, !.max_id = NoId],
                           HashtagUrl(NoId))

\* max_id = posts[-1]["id"]
HashtagCursor(ps) == ps[Len(ps)].id

HashtagAdvance(s) ==
    IF s.resp = None THEN Raise(s, "AttributeError")
    ELSE IF s.resp.st = 500 THEN Finish(s, "500")
    ELSE IF s.resp.st = 429
    THEN CallGet(Sleep(s, SLEEP_RATE_LIMIT), HashtagUrl(s.max_id))
    ELSE LET t == TakePage(s, s.resp.body.items)
         IN IF t.posts = <<>> THEN Finish(t, "empty")
            ELSE Yield([t EXCEPT !.max_id = HashtagCursor(t.posts),
                                 !.num_gabs = @ + 1], 1)

HashtagResume_Prefetch(s, g) ==
    IF HashtagLimitHit(s.num_gabs, g) THEN Finish(s, "limit")
    ELSE CallGet(s, HashtagUrl(s.max_id))

\* lines 155-157, then the next record or the next iteration of the loop
HashtagResume(s, g) ==
    IF HashtagLimitHit(s.num_gabs, g) THEN Finish(s, "limit")
    ELSE IF s.idx < Len(s.posts)
    THEN Yield([s EXCEPT !.num_gabs = @ + 1], s.idx + 1)
    ELSE CallGet(s, HashtagUrl(s.max_id))

-----------------------------------------------------------------------------
(* public_search (lines 159-222) *)

\* str.lower, piece by piece
Lower(c) == IF c = "Q" THEN "q" ELSE c
LowerAll(t) == [i \in 1..Len(t) |-> Lower(t[i])]

\* re.search of a one-word pattern: some piece of the text is the word
Found(word, t) == \E i \in 1..Len(t) : t[i] = word

search_gab_text_CaseSensitive(gab, query) == Found(Lower(query), gab.content)

\* search_gab_text (lines 414-424)
search_gab_text(gab, query) == Found(Lower(query), LowerAll(gab.content))

OverLimit_Never(n, g) == n > g /\ g = -1

\* lines 206, 269, 295
OverLimit(n, g) == n > g /\ g # -1

\* created_at < gabs_after
Older(post, after) == post.created_at < after

StagedCutoff_FirstOnly(ps, after) ==
    IF ps[1].created_at < after THEN "stop" ELSE "continue"

\* lines 216-222: "stop", "continue", or "IndexError" when the page has no
\* second or third record to inspect
StagedCutoff(ps, after) ==
    IF ~Older(ps[1], after) THEN "continue"
    ELSE IF Len(ps) < 2 THEN "IndexError"
    ELSE IF ~Older(ps[2], after) THEN "continue"
    ELSE IF Len(ps) < 3 THEN "IndexError"
    ELSE IF ~Older(ps[3], after) THEN "continue"
    ELSE IF ~Older(ps[Len(ps)], after) THEN "continue"
    ELSE "stop"

PublicStart(s) == CallGet([s EXCEPT !.num_gabs = 0, !.max_id = NoId],
                          PublicUrl(NoId))

\* lines 205-222: after the for loop
PublicEndOfPage(s, g, after) ==
    LET t == [s EXCEPT !.num_gabs = @ + Len(s.posts)]
        c == StagedCutoff(t.posts, after)
    IN IF OverLimit(t.num_gabs, g) THEN Finish(t, "limit")
       ELSE IF c = "IndexError" THEN Raise(t, "IndexError")
       ELSE IF c = "stop" THEN Finish(t, "date")
       ELSE CallGet(t, PublicUrl(t.max_id))

\* lines 201-204: the for loop from record i on, up to the next yield
RECURSIVE PublicLoop(_, _, _, _)
PublicLoop(s, i, g, after) ==
    IF i > Len(s.posts) THEN PublicEndOfPage(s, g, after)
    ELSE IF search_gab_text(s.posts[i], Query) THEN YieldFormatted(s, i)
    ELSE PublicLoop([s EXCEPT !.max_id = s.posts[i].id], i + 1, g, after)

PublicAdvance(s, g, after) ==
    IF s.resp = None THEN Raise(s, "AttributeError")
    ELSE IF s.resp.st = 500 THEN Finish(s, "500")
    ELSE IF s.resp.st = 429
    THEN Finish(Sleep(s, SLEEP_RATE_LIMIT), "rate_limited")
    ELSE LET t == TakePage(s, s.resp.body.items)
         IN IF t.posts = <<>> THEN Finish(t, "empty")
            ELSE PublicLoop(t, 1, g, after)

PublicResume(s, g, after) ==
    PublicLoop([s EXCEPT !.max_id = s.posts[s.idx].id], s.idx + 1, g, after)

-----------------------------------------------------------------------------
(* userposts (lines 242-270) and usercomments (lines 272-296) *)

LookupStart(s) == CallGet([s EXCEPT !.phase = "lookup"], AccountUrl)

\* account_id = self.get(account_url).json()["id"], then the loop's first
\* request.  A 429 body carries no "id".
LookupAdvance(s, e) ==
    IF s.resp = None THEN Raise(s, "AttributeError")
    ELSE IF s.resp.st = 429 THEN Raise(s, "KeyError")
    ELSE LET a == s.resp.body.id
             t == [s EXCEPT !.account_id = a, !.max_id = NoId,
                            !.num_gabs = 0, !.phase = "page",
                            !.hist = <<>>, !.slept = <<>>]
         IN CallGet(t, IF e = "userposts" THEN UserpostsUrl(a, NoId)
                       ELSE UsercommentsBase(a))

\* lines 258-264 / 286-291: no status check; a 429 body is no list of posts
TimelineAdvance(s, e) ==
    IF s.resp = None THEN Raise(s, "AttributeError")
    ELSE IF s.resp.st = 429 THEN Raise(s, "KeyError")
    ELSE LET t == TakePage(s, s.resp.body.items)
         IN IF t.posts = <<>> THEN Finish(t, "empty")
            ELSE IF e = "userposts"
            THEN YieldFormatted(
                     [t EXCEPT !.last_published_date =
                                   t.posts[Len(t.posts)].created_at], 1)
            ELSE YieldFormatted(t, 1)

UserpostsEndOfPage_NoDate(s, g, after) ==
    LET t == [s EXCEPT !.num_gabs = @ + Len(s.posts)]
    IN IF OverLimit(t.num_gabs, g) THEN Finish(t, "limit")
       ELSE CallGet(t, UserpostsUrl(t.account_id, t.max_id))

\* lines 266-270
UserpostsEndOfPage(s, g, after) ==
    LET t == [s EXCEPT !.num_gabs = @ + Len(s.posts)]
    IN IF t.last_published_date < after THEN Finish(t, "date")
       ELSE IF OverLimit(t.num_gabs, g) THEN Finish(t, "limit")
       ELSE CallGet(t, UserpostsUrl(t.account_id, t.max_id))

\* lines 293-296
UsercommentsEndOfPage(s, g) ==
    LET t == [s EXCEPT !.num_gabs = @ + Len(s.posts)]
    IN IF OverLimit(t.num_gabs, g) THEN Finish(t, "limit")
       ELSE CallGet(t, UsercommentsNext(t.account_id, t.max_id))

\* lines 263-265 / 290-292: max_id = post["id"], then the next record
TimelineResume(s, e, g, after) ==
    LET t == [s EXCEPT !.max_id = s.posts[s.idx].id]
    IN IF t.idx < Len(t.posts) THEN YieldFormatted(t, t.idx + 1)
       ELSE IF e = "userposts" THEN UserpostsEndOfPage(t, g, after)
       ELSE UsercommentsEndOfPage(t, g)

-----------------------------------------------------------------------------
(* followers / following (lines 328-357) *)

FollowStart(s, e) == CallGet([s EXCEPT !.num_gabs = 0], FollowUrl(e, 0))

FollowAdvance_NoBreak(s) ==
    IF s.resp = None THEN Raise(s, "AttributeError")
    ELSE IF s.resp.st = 429 THEN Raise(s, "KeyError")
    ELSE LET t == TakePage(s, s.resp.body.items)
         IN IF t.posts = <<>> THEN CallGet(t, FollowUrl("followers", t.num_gabs))
            ELSE Yield(t, 1)

\* posts = resp.json()["data"]
FollowAdvance(s) ==
    IF s.resp = None THEN Raise(s, "AttributeError")
    ELSE IF s.resp.st = 429 THEN Raise(s, "KeyError")
    ELSE LET t == TakePage(s, s.resp.body.items)
         IN IF t.posts = <<>> THEN Finish(t, "empty") ELSE Yield(t, 1)

FollowResume(s, e) ==
    IF s.idx < Len(s.posts) THEN Yield(s, s.idx + 1)
    ELSE LET t == [s EXCEPT !.num_gabs = @ + Len(s.posts)]
         IN CallGet(t, FollowUrl(e, t.num_gabs))

-----------------------------------------------------------------------------
(* user (lines 224-230) *)

UserStart(s) == CallGet([s EXCEPT !.phase = "lookup"], AccountUrl)

\* the decoded body as the one record the generator yields
AccountRecord(b) ==
    [id |-> b.id, created_at |-> 0, content |-> Plain, body |-> Unset]

\* yield resp.json(): whatever the body decodes to, with no status check
UserAdvance(s) ==
    IF s.resp = None THEN Raise(s, "AttributeError")
    ELSE Yield([s EXCEPT !.posts = <<AccountRecord(s.resp.body)>>,
                         !.resp = None, !.hist = <<>>, !.slept = <<>>], 1)

UserResume(s) == Finish(s, "end")

-----------------------------------------------------------------------------
(* Dispatch on the engine *)

EngineStart(s, e, g) ==
    CASE e = "search" -> SearchStart(s, g)
      [] e = "hashtag" -> HashtagStart(s)
      [] e = "public_search" -> PublicStart(s)
      [] e \in WithLookup -> LookupStart(s)
      [] e = "user" -> UserStart(s)
      [] OTHER -> FollowStart(s, e)

EngineAdvance(s, e, g, after) ==
    CASE e = "search" -> SearchAdvance(s, g)
      [] e = "hashtag" -> HashtagAdvance(s)
      [] e = "public_search" -> PublicAdvance(s, g, after)
      [] e \in WithLookup ->
           IF s.phase = "lookup" THEN LookupAdvance(s, e)
           ELSE TimelineAdvance(s, e)
      [] e = "user" -> UserAdvance(s)
      [] OTHER -> FollowAdvance(s)

EngineResume(s, e, g, after) ==
    CASE e = "search" -> SearchResume(s, g)
      [] e = "hashtag" -> HashtagResume(s, g)
      [] e = "public_search" -> PublicResume(s, g, after)
      [] e \in WithLookup -> TimelineResume(s, e, g, after)
      [] e = "user" -> UserResume(s)
      [] OTHER -> FollowResume(s, e)

-----------------------------------------------------------------------------
(* Actions *)

\* __init__ up to the call of check_keys (lines 35-46), on inputs from I
InitWith(I) ==
    /\ inputs \in I
    /\ user_account = inputs.arg_account
    /\ user_password = inputs.arg_password
    /\ cookie = "None"
    /\ engine = "none" /\ gabs = -1 /\ gabs_after = 2
    /\ frames = <<>> /\ wire = None
    /\ pc = "new" /\ phase = "page" /\ page = 0 /\ pages_count = 0
    /\ max_id = NoId /\ account_id = NoId /\ num_gabs = 0
    /\ posts = <<>> /\ idx = 0 /\ last_published_date = 0 /\ url = NoUrl
    /\ resp = None /\ hist = <<>> /\ slept = <<>> /\ err = "" /\ stop = ""
    /\ npages = 0 /\ num_yielded = 0 /\ last_id = NoId

Init == InitWith(ArgInputs)

\* self.check_keys() (line 48): the client is ready, or the process exits
Construct ==
    /\ pc = "new"
    /\ LET k == check_keys(inputs)
       IN /\ user_account' = k.user_account
          /\ user_password' = k.user_password
          /\ pc' = IF k.exit THEN "exit" ELSE "idle"
    /\ UNCHANGED <<inputs, cookie, args, phase, page, pages_count, max_id,
                   account_id, num_gabs, posts, idx, last_published_date, url,
                   resp, frames, hist, slept, wire, err, stop, npages,
                   num_yielded, last_id>>

\* the caller invokes an engine method: a generator object is created and
\* none of its body has run
Call(e, g, after) ==
    /\ pc = "idle"
    /\ engine' = e /\ gabs' = g /\ gabs_after' = after
    /\ Become(NewFrame)
    /\ UNCHANGED <<client, cookie, frames, wire>>

\* first next(): the body runs up to its first call of get
Start ==
    /\ pc = "start"
    /\ \E s \in {EngineStart(Frame, engine, gabs)} : Become(s)
    /\ UNCHANGED <<client, cookie, args, frames, wire>>

\* get returned: the body runs on to its next suspension
Advance ==
    /\ pc = "got"
    /\ \E s \in {EngineAdvance(Frame, engine, gabs, gabs_after)} : Become(s)
    /\ UNCHANGED <<client, cookie, args, frames, wire>>

\* next() on a suspended generator
Resume ==
    /\ pc = "yield"
    /\ \E s \in {EngineResume(Frame, engine, gabs, gabs_after)} : Become(s)
    /\ UNCHANGED <<client, cookie, args, frames, wire>>

\* the caller lets go of the generator: finished, failed or abandoned
Close ==
    /\ pc \in {"done", "error", "yield"}
    /\ engine' = "none" /\ gabs' = -1 /\ gabs_after' = 2
    /\ Become([NewFrame EXCEPT !.pc = "idle"])
    /\ frames' = <<>> /\ wire' = None
    /\ UNCHANGED <<client, cookie>>

Request ==
    /\ pc = "get"
    /\ \E o \in Outcomes(engine, phase, npages + 1, FALSE, MaxPages,
                          MaxRetries) :
          \E c \in (IF NeedsLogin THEN LoginResults ELSE {cookie}) :
             GetRequest(o, c)

Invoke == \E e \in Engines : \E g \in Limits(e) : \E after \in Cutoffs :
              Call(e, g, after)

Next ==
    \/ Construct
    \/ Invoke
    \/ Start
    \/ GetLoginFail
    \/ Request
    \/ Advance
    \/ Resume
    \/ Close

Spec == Init /\ [][Next]_vars

(* One collection call of an engine whose stop rules read the records, on *)
(* a client constructed with account info: the upstream's records vary in *)
(* date and content, and it gives fewer retry answers.                    *)

InitData == Init /\ user_account = "acct" /\ user_password = "pw"

RequestData ==
    /\ pc = "get"
    /\ \E o \in Outcomes(engine, phase, npages + 1, TRUE, DataPages,
                          DataRetries) :
          \E c \in (IF NeedsLogin THEN LoginResults ELSE {cookie}) :
             GetRequest(o, c)

InvokeData == \E e \in DataEngines : \E g \in Limits(e) :
                  \E after \in Cutoffs : Call(e, g, after)

NextData ==
    \/ Construct
    \/ InvokeData
    \/ Start
    \/ RequestData
    \/ Advance
    \/ Resume

SpecData == InitData /\ [][NextData]_vars

(* Construction alone, on every combination of arguments, environment and *)
(* profile section.                                                       *)

InitKeys == InitWith(AllInputs)

NextKeys == Construct

SpecKeys == InitKeys /\ [][NextKeys]_vars

(* One call with a limit, against an upstream that answers every request *)
(* with 200 and a non-empty page of records no older than the cutoff, so  *)
(* that only the limit can end the call.  The consumer keeps pulling, the *)
(* upstream keeps answering and the code runs on: every step that can be  *)
(* taken eventually is.                                                   *)

\* pages the upstream is asked for before the model stops following it
LivePages == MaxLimit + 2

LimitEngines ==
    {"search", "hashtag", "public_search", "userposts", "usercomments"}

RequestLive ==
    /\ pc = "get"
    /\ npages < LivePages
    /\ \E o \in {x \in Outcomes(engine, phase, npages + 1, FALSE,
                                  LivePages, 0) :
                    phase = "page" => x.body.items # <<>>} :
          \E c \in (IF NeedsLogin THEN LoginResults ELSE {cookie}) :
             GetRequest(o, c)

InvokeLive == \E e \in LimitEngines : \E g \in Limits(e) \ {-1} :
                  \E after \in Cutoffs : Call(e, g, after)

NextLive ==
    \/ Construct
    \/ InvokeLive
    \/ Start
    \/ RequestLive
    \/ Advance
    \/ Resume

SpecLive == InitData /\ [][NextLive]_vars /\ WF_vars(NextLive)

-----------------------------------------------------------------------------
(* Properties *)

Statuses(h) == [i \in 1..Len(h) |-> h[i].st]
Cursors(h) == [i \in 1..Len(h) |-> h[i].cur]
CreatedAt(ps) == [i \in 1..Len(ps) |-> ps[i].created_at]
Limited == gabs # -1

\* C1: userposts and public_search never hand the consumer more than
\* gabs records when gabs # -1.
C1_YieldedWithinLimit ==
    (engine \in {"userposts", "public_search"} /\ Limited)
        => num_yielded <= gabs

\* C2: search with gabs >= 0 never yields more than gabs records, and once
\* the gabs-th record is out the generator is suspended on it or finished:
\* it is never back in get, and the rest of the page stays unyielded.
C2_SearchStopsAtLimit ==
    (engine = "search" /\ gabs >= 0)
        => /\ num_yielded <= gabs
           /\ num_yielded = gabs =>
                 /\ pc \in {"start", "yield", "done"}
                 /\ pc = "done" => stop \in {"limit", "pages"}
                 /\ gabs > 0 => hist = <<>> /\ frames = <<>>
           /\ stop = "limit" => num_yielded = gabs

C2_Witness ==
    /\ engine = "search" /\ pc = "done" /\ stop = "limit"
    /\ gabs = 2 /\ num_yielded = 2 /\ Len(posts) = 4 /\ idx = 2

\* C3: hashtag with gabs >= 0 yields at most gabs + 1 records; it ends on
\* the limit exactly when gabs + 1 records are out, with no fetch after
\* the last of them, and it ends on an empty page only when the upstream
\* supplied at most gabs records.
C3_HashtagOffByOne ==
    (engine = "hashtag" /\ gabs >= 0)
        => /\ num_yielded <= gabs + 1
           /\ num_yielded = gabs + 1 => pc \in {"yield", "done"}
           /\ pc = "done" =>
                 \/ stop = "limit" /\ num_yielded = gabs + 1
                 \/ stop = "empty" /\ posts = <<>> /\ num_yielded <= gabs

C3_Witness ==
    /\ engine = "hashtag" /\ pc = "done" /\ stop = "limit"
    /\ gabs = 2 /\ num_yielded = 3 /\ npages = 2

\* C4: in search, hashtag and public_search a 429 answer makes the engine
\* sleep 100s and call get again with the same url; the call does not end.
C4_RateLimitRepolls ==
    [][(/\ pc = "got"
        /\ engine \in {"search", "hashtag", "public_search"}
        /\ resp.st = 429)
       => (/\ pc' = "get"
           /\ url' = url
           /\ slept' = Append(slept, SLEEP_RATE_LIMIT))]_vars

\* C5: after connection errors followed by a successful answer, get /
\* anonymous_get hands that answer to the engine and nothing is raised.
C5_ConnectionErrorsRetried ==
    (/\ Len(hist) >= 2
     /\ \A i \in 1..(Len(hist) - 1) : hist[i].st = ConnErr.st
     /\ hist[Len(hist)].st = 200)
        => (pc = "got" /\ resp = wire /\ err = "")

C7_ScriptedRetry ==
    (/\ engine \in Authenticated /\ phase = "page" /\ pc = "got"
     /\ Statuses(hist) = <<429, 500, 404, 200>>)
        => /\ \A i \in 1..Len(hist) : hist[i].cur = hist[1].cur
           /\ slept = <<SLEEP_RATE_LIMIT, SLEEP_500, SLEEP_404>>
           /\ resp = wire

\* C8: every request of a max_id engine carries the initial cursor before
\* the first page and the id of the last record of the latest page after.
C8_CursorFollowsLastRecord ==
    (engine \in MaxIdEngines /\ phase = "page")
        => \A i \in 1..Len(hist) :
              IF npages = 0 THEN hist[i].cur \in {NoId, Absent}
              ELSE hist[i].cur = last_id

\* C9: when the first page an engine receives is empty, the call ends
\* there: no record, no error, no further request.
C9_EmptyFirstPage ==
    /\ [][(/\ pc = "got" /\ phase = "page" /\ npages = 0
           /\ resp.st = 200 /\ resp.body.items = <<>>)
          => (/\ pc' = "done" /\ err' = "" /\ num_yielded' = 0
              /\ hist' = <<>>)]_vars
    /\ []((stop = "empty" /\ npages = 1)
             => (pc = "done" /\ posts = <<>> /\ num_yielded = 0 /\ err = ""))

C9_Witness ==
    /\ engine = "userposts" /\ pc = "done" /\ npages = 1 /\ posts = <<>>
    /\ num_yielded = 0 /\ err = ""

\* the first, second, third and last record are all older than the cutoff
AllFourOlder(ps, after) ==
    \A i \in {1, 2, 3, Len(ps)} : ps[i].created_at < after

\* the page public_search holds before a step: the one it is suspended in,
\* or the one get has just returned
PageHeld == IF pc = "yield" THEN posts ELSE resp.body.items

\* a step that takes public_search past the end of a page it has read
PublicPageEnds ==
    /\ engine = "public_search"
    /\ \/ pc = "yield"
       \/ pc = "got" /\ resp.st = 200 /\ resp.body.items # <<>>
    /\ pc' \in {"get", "done", "error"}

MissingInfo == user_account = "" \/ user_password = ""

\* C11: on a client whose account or password is unset, the first fetch of
\* an authenticated engine ends the call with MissingAccountInfo: no
\* request goes out, nothing is slept, no record is yielded, the cookie
\* stays unset, and the failed call is not resumed.
C11_MissingCredentials ==
    /\ [][(pc = "get" /\ engine \in Authenticated /\ MissingInfo)
          => (/\ pc' = "error" /\ err' = "MissingAccountInfo"
              /\ UNCHANGED <<cookie, hist, slept, wire, num_yielded>>)]_vars
    /\ [][pc = "error" => pc' = "idle"]_vars
    /\ []((engine \in Authenticated /\ MissingInfo)
             => /\ cookie = "None" /\ wire = None /\ hist = <<>>
                /\ slept = <<>> /\ num_yielded = 0
                /\ pc \in {"start", "get", "error", "done"}
                /\ pc = "error" => err = "MissingAccountInfo"
                /\ pc = "done" => engine = "search" /\ gabs = 0)

C11_Witness ==
    /\ engine = "user" /\ pc = "error" /\ err = "MissingAccountInfo"
    /\ user_account = "acct" /\ user_password = ""
    /\ cookie = "None" /\ hist = <<>>

\* C13: once login has set the cookie, no later pass through get changes
\* it: login runs at most once in the life of the client.
C13_SessionCached == [][cookie # "None" => cookie' = cookie]_vars

\* the engines that walk pages of posts
PaginationEngines ==
    {"search", "hashtag", "public_search", "userposts", "usercomments"}

\* the plain text of an HTML content: no tags, references resolved
PlainText(t) ==
    LET keep == {i \in 1..Len(t) : t[i] \notin {"<b>", "</b>"}}
        nth(k) == CHOOSE i \in keep : Cardinality({j \in keep : j < i}) = k - 1
    IN [k \in 1..Cardinality(keep) |->
          IF t[nth(k)] = "&amp;" THEN "&" ELSE t[nth(k)]]

\* C12: the record a pagination engine hands to the consumer is the
\* upstream record with every field as delivered and the body field set
\* to the plain text of its content.
C12_YieldedRecordNormalised ==
    (pc = "yield" /\ engine \in PaginationEngines)
        => LET r == posts[idx]
               u == wire.body.items[idx]
           IN /\ r.id = u.id /\ r.created_at = u.created_at
              /\ r.content = u.content
              /\ r.body = PlainText(u.content)

\* the value a profile section supplies for a key, "" when it has none
Supplied(prof, v) == IF prof.found /\ v # NoOption THEN v ELSE ""

\* the first of argument, environment and profile that supplies a value
Resolve(arg, env, cfg) ==
    IF arg # "" THEN arg ELSE IF env # "" THEN env ELSE cfg

\* C14: after construction the account and the password each hold the
\* constructor argument if one was given, else the environment variable if
\* set, else the value of the profile section.
C14_ResolutionOrder ==
    pc = "idle"
       => /\ user_account =
                Resolve(inputs.arg_account, inputs.env_account,
                        Supplied(inputs.profile, inputs.profile.user_account))
          /\ user_password =
                Resolve(inputs.arg_password, inputs.env_password,
                        Supplied(inputs.profile, inputs.profile.user_password))

\* the content holds the query word in either case
Matches(post) == \E i \in 1..Len(post.content) : post.content[i] \in {"q", "Q"}

\* positions after i of page ps whose records the engine hands out
Pending(ps, i) ==
    {k \in (i + 1)..Len(ps) : engine = "public_search" => Matches(ps[k])}

\* C15: an engine calls get for the next page only from a pull that finds
\* no record left to hand out in the page it holds; while the generator is
\* suspended on a record nothing is in flight, and unless the consumer
\* pulls again the only step is letting go of it, which does not fetch,
\* sleep or log in.
C15_LazyProduction ==
    /\ [][(pc = "yield" /\ pc' = "get") => Pending(posts, idx) = {}]_vars
    /\ [][(/\ pc = "got" /\ pc' = "get" /\ phase = "page" /\ resp.st = 200
           /\ resp.body.items # <<>>)
          => Pending(resp.body.items, 0) = {}]_vars
    /\ [](pc = "yield"
             => hist = <<>> /\ slept = <<>> /\ frames = <<>> /\ resp = None)
    /\ [][(pc = "yield" /\ ~Resume)
          => (/\ pc' = "idle" /\ cookie' = cookie
              /\ hist' = <<>> /\ slept' = <<>>)]_vars

C15_Witness ==
    /\ engine = "hashtag" /\ gabs = -1 /\ pc = "get" /\ npages = 1
    /\ num_yielded = 2 /\ last_id = <<1, 2>> /\ hist = <<>>

\* the least number of pages of PAGE_SIZE records that hold L records
CeilPages(L) ==
    CHOOSE n \in 0..L :
        n * PAGE_SIZE >= L /\ (n = 0 \/ (n - 1) * PAGE_SIZE < L)

\* C16: search asks for page 0 first and for the next page index on every
\* further iteration, whatever the last answer was; with gabs >= 0 it
\* begins at most ceil(gabs / 25) iterations, and none when gabs = 0.
C16_SearchPageBudget ==
    /\ []((engine = "search" /\ gabs >= 0)
             => /\ pc \in {"get", "got", "yield"}
                      => page + 1 <= CeilPages(gabs)
                /\ gabs = 0 => (/\ pc \in {"start", "done"}
                                /\ hist = <<>> /\ wire = None))
    /\ []((engine = "search" /\ pc \in {"get", "got"})
             => CursorOf(url) = page)
    /\ [][(engine = "search" /\ engine' = "search" /\ url' # url)
          => IF pc = "start" THEN page' = 0 /\ CursorOf(url') = 0
             ELSE page' = page + 1 /\ CursorOf(url') = page + 1]_vars

C16_Witness ==
    /\ engine = "search" /\ gabs = PAGE_SIZE + 1
    /\ pc = "done" /\ stop = "pages" /\ page = 1 /\ npages = 2
    /\ num_yielded = 2

\* public_search reads on in the page it holds: from the record it is
\* suspended on, or from the head of the page get has just returned
PublicReadsOn ==
    /\ engine = "public_search" /\ engine' = "public_search"
    /\ \/ pc = "yield"
       \/ pc = "got" /\ resp.st = 200 /\ resp.body.items # <<>>

\* C17: reading on in a page, public_search yields the next record whose
\* content holds the query word in either case, normalised, and skips the
\* records before it; when none is left the page is over: max_id is the id
\* of the page's last record and num_gabs has grown by the page's length.
C17_PublicFilter ==
    [][PublicReadsOn
       => LET P == PageHeld
              i0 == IF pc = "yield" THEN idx ELSE 0
          IN IF pc' = "yield"
             THEN /\ idx' > i0 /\ Matches(P[idx'])
                  /\ \A k \in (i0 + 1)..(idx' - 1) : ~Matches(P[k])
                  /\ posts'[idx'].id = P[idx'].id
                  /\ posts'[idx'].content = P[idx'].content
                  /\ num_gabs' = num_gabs
             ELSE /\ \A k \in (i0 + 1)..Len(P) : ~Matches(P[k])
                  /\ max_id' = P[Len(P)].id
                  /\ num_gabs' = num_gabs + Len(P)]_vars

C17_Witness ==
    /\ engine = "public_search" /\ gabs = -1 /\ pc = "get" /\ npages = 1
    /\ num_gabs = 3 /\ num_yielded = 1 /\ max_id = <<1, 3>>

\* C18: userposts fetches the account lookup once, before any page, and
\* every page request names the id it answered; suspended on the last
\* record of a page, the next pull ends the call if that record is older
\* than gabs_after or the count of records read exceeds the limit, and
\* otherwise requests the page after that record.
C18_UserTimelineStops ==
    /\ []((engine = "userposts" /\ pc \in {"get", "got"})
             => IF phase = "lookup"
                THEN url = AccountUrl /\ npages = 0 /\ num_yielded = 0
                ELSE /\ url.ep = "statuses" /\ url.acct = AcctId
                     /\ account_id = AcctId)
    /\ [][(engine = "userposts" /\ phase = "page"
           /\ pc \in {"get", "got", "yield", "done", "error"})
          => phase' = "page"]_vars
    /\ [][(engine = "userposts" /\ pc = "yield" /\ pc' # "idle")
          => IF idx < Len(posts) THEN pc' = "yield" /\ idx' = idx + 1
             ELSE IF \/ posts[Len(posts)].created_at < gabs_after
                     \/ gabs # -1 /\ num_gabs + Len(posts) > gabs
             THEN pc' = "done" /\ url' = url /\ hist' = <<>>
             ELSE /\ pc' = "get" /\ url'.ep = "statuses"
                  /\ url'.acct = AcctId
                  /\ Param(url', "max_id") = posts[Len(posts)].id]_vars

C18_Witness ==
    /\ engine = "userposts" /\ gabs = -1 /\ pc = "done" /\ stop = "date"
    /\ CreatedAt(posts) = <<2, 1>> /\ num_yielded = 2 /\ npages = 1

\* C19: a call with a limit gabs >= 0, served a non-empty page on every
\* fetch and pulled for as long as it yields, comes to its end.
C19_TerminatesOnLimit == (pc = "start") ~> (pc = "done")

C19_Witness ==
    /\ engine = "usercomments" /\ gabs = 2 /\ pc = "done" /\ stop = "limit"
    /\ npages = 3 /\ num_yielded = 3

\* C20: past a page of any length whose first record is older than
\* gabs_after, public_search either ends the call or requests the next
\* page; it does not fail.
C20_ShortPagesDecided ==
    [][(PublicPageEnds /\ PageHeld[1].created_at < gabs_after)
       => pc' \in {"done", "get"}]_vars

====
